---- MODULE Spec2Model ----
(***************************************************************************)
(* Model of the todo service's repository layer:                           *)
(*   - TodoRepositoryForMemory (src/src/repositories/todo.rs, test_utils): *)
(*     a HashMap<i32, TodoEntity> behind an Arc<RwLock<..>>, plus the      *)
(*     label list the repository was built with;                           *)
(*   - TodoRepositoryForDb (same file): one SQL statement per operation,   *)
(*     except update, which is a SELECT followed by an UPDATE;             *)
(*   - LabelRepositoryForDb (src/src/repositories/labels.rs): create is a  *)
(*     SELECT followed by an INSERT;                                       *)
(*   - the ValidateJson extractor and the todo handlers                    *)
(*     (src/src/handlers/todo.rs) in front of the repositories.            *)
(*                                                                         *)
(* Option<T> is modelled as a sequence of length 0 (None) or 1 (Some).     *)
(***************************************************************************)
EXTENDS Integers, Sequences, FiniteSets, TLC

\* ------------------------------------------------------------------ bounds

\* The largest number of todos the in-memory store is allowed to hold.
MaxTodos == 2

\* The number of tasks that call the in-memory repository concurrently.
NumTasks == 3

\* The largest number of todos the store holds before those tasks start.
MaxPreTodos == 1

\* The largest number of rows ever inserted into the todos table.
MaxRows == 1

\* The number of callers that create labels concurrently.
NumLabelCallers == 3

\* The longest text a request body carries to the extractor.
MaxBodyLen == 102

\* The largest number of rows handed to fold_entities.
MaxFoldRows == 3
MaxListed == 2
NumWorkers == 2

\* ------------------------------------------------------------ value spaces

None == <<>>
Some(v) == <<v>>

\* Texts of CreateTodo / UpdateTodo payloads (valid ones: 1..100 chars).
Texts == {"a", "b"}

\* The ids callers pass to find / update / delete: every id the store can
\* hold and one it never holds.
Ids == 1..(MaxTodos + 1)

\* struct Label { id, name }
Label(id, name) == [id |-> id, name |-> name]

\* The label list the sequential repository is built with, and the label
\* ids a payload may ask for: the stored one and one that is not stored.
OneLabel == << Label(1, "x") >>
LabelIds == {1, 2}

\* The labels lists of UpdateTodo payloads: the empty list, each id alone,
\* and the stored id asked for twice.
LabelReqs == { <<>> } \cup { <<i>> : i \in LabelIds } \cup { <<1, 1>> }

\* struct UpdateTodo { text: Option<String>, completed: Option<bool>,
\*                     labels: Option<Vec<i32>> }
UpdateTodo ==
    [ text : {None} \cup { Some(t) : t \in Texts },
      completed : {None} \cup { Some(b) : b \in BOOLEAN },
      labels : {None} \cup { Some(l) : l \in LabelReqs } ]

\* struct CreateTodo { text }
CreateTodo == [ text : Texts ]

\* struct TodoEntity { id, text, completed, labels }
TodoEntity(id, text, completed, labels) ==
    [id |-> id, text |-> text, completed |-> completed, labels |-> labels]

\* TodoEntity::new(id, text): completed = false, labels = vec![]
TodoEntity_new(id, text) == TodoEntity(id, text, FALSE, <<>>)

\* Results of a call: Ok(value), Err(RepositoryError::NotFound(id)), or a
\* panic with its message.
Ok(v) == [kind |-> "Ok", val |-> v]
NotFound(id) == [kind |-> "Err", err |-> "NotFound", id |-> id]
Panic(msg) == [kind |-> "Panic", msg |-> msg]

\* Option::unwrap_or
unwrap_or(opt, default) == IF opt = None THEN default ELSE opt[1]

\* ------------------------------------------------------------------- state

VARIABLES
    store,      \* TodoRepositoryForMemory.store: HashMap<i32, TodoEntity>
    labels,     \* TodoRepositoryForMemory.labels: Vec<Label>
    poisoned,   \* whether the store's RwLock is poisoned
    last,       \* the last call: op, id, the payload it consumed, result
    issued      \* the ids returned by the creates before the last call

memVars == << store, labels, poisoned, last, issued >>

VARIABLES
    lock,       \* the RwLock: [writer |-> task holding the write guard or 0,
                \*              readers |-> tasks holding a read guard]
    task        \* each concurrent task's call: pc, op, payload, id, result

taskVars == << lock, task >>

VARIABLES
    rows,       \* the todos table: id -> row (id, text, completed)
    serial,     \* the next value of the table's id sequence
    proc        \* each database caller's call: pc, op, id, payload, old, res

dbVars == << rows, serial, proc >>

VARIABLES
    ltable,     \* the labels table: id -> Label
    lserial,    \* the next value of the labels table's id sequence
    lproc       \* each label caller's create: pc, name, res

labelVars == << ltable, lserial, lproc >>

VARIABLES
    http,       \* the last HTTP exchange: request, extractor verdict, response
    fold        \* a call of fold_entities: its rows and its output

\* What the todo repositories never touch.
restVars == << labelVars, http, fold >>

vars == << memVars, taskVars, dbVars, restVars >>

\* -------------------------------------------------- in-memory repository

\* Iterator::find on the one shared `label_list` iterator: the position of
\* the first label with this id at or after `pos`, 0 when the iterator is
\* exhausted without finding one.
IterFind(list, pos, id) ==
    LET hits == { j \in pos..Len(list) : list[j].id = id }
    IN  IF hits = {} THEN 0
        ELSE CHOOSE j \in hits : \A k \in hits : j <= k

\* The map() closure of resolve_labels run over the requested ids: every
\* id is searched with the same iterator, which keeps advancing; a failed
\* search unwraps None and panics (ok = FALSE).
RECURSIVE ResolveFrom(_, _, _)
ResolveFrom(list, pos, ids) ==
    IF ids = <<>> THEN [ok |-> TRUE, val |-> <<>>]
    ELSE LET j == IterFind(list, pos, Head(ids))
         IN  IF j = 0 THEN [ok |-> FALSE, val |-> <<>>]
             ELSE LET rest == ResolveFrom(list, j + 1, Tail(ids))
                  IN  [ok |-> rest.ok, val |-> <<list[j]>> \o rest.val]

\* TodoRepositoryForMemory::resolve_labels
resolve_labels(list, ids) == ResolveFrom(list, 1, ids)

\* A map "insert" that keeps the stored value when the key is taken.
InsertIfAbsent(m, k, v) ==
    [x \in DOMAIN m \cup {k} |-> IF x \in DOMAIN m THEN m[x] ELSE v]

\* HashMap::insert
Insert(m, k, v) == [x \in DOMAIN m \cup {k} |-> IF x = k THEN v ELSE m[x]]

\* HashMap::remove
RemoveAll(m, k) == << >>
Remove(m, k) == [x \in DOMAIN m \ {k} |-> m[x]]

\* An id one above the largest stored key.
NextIdAfterLargest(m) ==
    IF DOMAIN m = {} THEN 1
    ELSE (CHOOSE k \in DOMAIN m : \A j \in DOMAIN m : j <= k) + 1

\* create's id: (store.len() + 1) as i32
NextId(m) == Cardinality(DOMAIN m) + 1

\* The orders HashMap::values() may yield the stored todos in.
ValueOrders(m) ==
    { s \in [1..Cardinality(DOMAIN m) -> { m[k] : k \in DOMAIN m }] :
        \A k \in DOMAIN m : \E i \in DOMAIN s : s[i] = m[k] }

Call(op, id, payload, res) == [op |-> op, id |-> id, payload |-> payload, res |-> res]

\* The ids the creates up to and including call c returned.
IssuedAfter(c) ==
    IF c.op = "create" /\ c.res.kind = "Ok" THEN issued \cup {c.res.val.id} ELSE issued

\* write_store_ref / read_store_ref: RwLock::write().unwrap() and
\* read().unwrap() panic when the lock is poisoned.
LockUsable == ~poisoned

\* A call that panics acquiring the lock, before it reads its payload.
PanicOnLock(op, id) ==
    /\ ~LockUsable
    /\ last' = Call(op, id, None, Panic("PoisonError"))
    /\ issued' = IssuedAfter(last)
    /\ UNCHANGED << store, labels, poisoned >>

\* The sequential caller leaves the tasks and the database alone.
OthersUnchanged == UNCHANGED << lock, task, rows, serial, proc, restVars >>

\* A todo numbered with the store's size.
CreatedTodoAtLen(m, payload) ==
    TodoEntity_new(Cardinality(DOMAIN m), payload.text)

\* What create returns and stores on a store m.
CreatedTodo(m, payload) == TodoEntity_new(NextId(m), payload.text)

\* TodoRepositoryForMemory::create
ForMemory_create(payload) ==
    /\ Cardinality(DOMAIN store) < MaxTodos
    /\ \/ PanicOnLock("create", 0)
       \/ /\ LockUsable
          /\ LET todo == CreatedTodo(store, payload)
             IN  /\ store' = Insert(store, NextId(store), todo)
                 /\ last' = Call("create", 0, Some(payload), Ok(todo))
          /\ issued' = IssuedAfter(last)
          /\ UNCHANGED << labels, poisoned >>

\* store.get(&id).cloned().ok_or(RepositoryError::NotFound(id))
FindResult(m, id) == IF id \in DOMAIN m THEN Ok(m[id]) ELSE NotFound(id)

\* What a find(id) called in the current state returns.
FindOutcome(id) ==
    IF LockUsable THEN FindResult(store, id) ELSE Panic("PoisonError")

\* TodoRepositoryForMemory::find
ForMemory_find(id) ==
    \/ PanicOnLock("find", id)
    \/ /\ LockUsable
       /\ last' = Call("find", id, None, FindOutcome(id))
       /\ issued' = IssuedAfter(last)
       /\ UNCHANGED << store, labels, poisoned >>

\* TodoRepositoryForMemory::all
ForMemory_all ==
    \/ PanicOnLock("all", 0)
    \/ /\ LockUsable
       /\ \E s \in ValueOrders(store) : last' = Call("all", 0, None, Ok(s))
       /\ issued' = IssuedAfter(last)
       /\ UNCHANGED << store, labels, poisoned >>

\* The labels update stores: the resolved ones when the payload carries a
\* list, the stored ones otherwise ([ok, val], ok = FALSE for a panic).
NewLabels(old, payload) ==
    IF payload.labels = None
    THEN [ok |-> TRUE, val |-> old.labels]
    ELSE resolve_labels(labels, payload.labels[1])

\* A todo built from the payload alone, absent fields taking defaults.
UpdatedTodoFromPayload(id, old, payload, newLabels) ==
    TodoEntity(id,
               unwrap_or(payload.text, old.text),
               unwrap_or(payload.completed, FALSE),
               newLabels)

\* The todo update builds from the stored one and the payload.
UpdatedTodo(id, old, payload, newLabels) ==
    TodoEntity(id,
               unwrap_or(payload.text, old.text),
               unwrap_or(payload.completed, old.completed),
               newLabels)

\* TodoRepositoryForMemory::update
ForMemory_update(id, payload) ==
    \/ PanicOnLock("update", id)
    \/ /\ LockUsable
       /\ issued' = IssuedAfter(last)
       /\ UNCHANGED labels
       /\ IF id \notin DOMAIN store
          THEN \* returns before the payload is read
               /\ last' = Call("update", id, None, NotFound(id))
               /\ UNCHANGED << store, poisoned >>
          ELSE LET r == NewLabels(store[id], payload)
               IN  IF r.ok
                   THEN LET todo == UpdatedTodo(id, store[id], payload, r.val)
                        IN  /\ store' = Insert(store, id, todo)
                            /\ last' = Call("update", id, Some(payload), Ok(todo))
                            /\ UNCHANGED poisoned
                   ELSE \* unwrap() panics while the write guard is held
                        /\ last' = Call("update", id, Some(payload),
                                        Panic("unwrap on None"))
                        /\ poisoned' = TRUE
                        /\ UNCHANGED store

\* TodoRepositoryForMemory::delete
ForMemory_delete(id) ==
    \/ PanicOnLock("delete", id)
    \/ /\ LockUsable
       /\ issued' = IssuedAfter(last)
       /\ UNCHANGED << labels, poisoned >>
       /\ IF id \in DOMAIN store
          THEN /\ store' = Remove(store, id)
               /\ last' = Call("delete", id, None, Ok(<<>>))
          ELSE /\ last' = Call("delete", id, None, NotFound(id))
               /\ UNCHANGED store

\* The calls of the one sequential caller, who touches nothing else.
Memory_create(payload) == OthersUnchanged /\ ForMemory_create(payload)
Memory_find(id) == OthersUnchanged /\ ForMemory_find(id)
Memory_all == OthersUnchanged /\ ForMemory_all
Memory_update(id, payload) == OthersUnchanged /\ ForMemory_update(id, payload)
Memory_delete(id) == OthersUnchanged /\ ForMemory_delete(id)

\* TodoRepositoryForMemory::new(labels): an empty store, nothing called.
NoCall == Call("new", 0, None, Ok(<<>>))

\* No concurrent task and no database caller exists.
NoTasks == lock = [writer |-> 0, readers |-> {}] /\ task = << >>
NoDb == rows = << >> /\ serial = 1 /\ proc = << >>
NoLabelDb == ltable = << >> /\ lserial = 1 /\ lproc = << >>

\* No request was served and fold_entities was not called.
NoHttp ==
    http = [op |-> "none", id |-> 0, body |-> [kind |-> "none"],
            validated |-> FALSE, called |-> FALSE, resp |-> [kind |-> "None"]]
NoFold == fold = [rows |-> <<>>, out |-> None]

Init ==
    /\ store = << >>
    /\ labels = OneLabel
    /\ poisoned = FALSE
    /\ last = NoCall
    /\ issued = {}
    /\ NoTasks
    /\ NoDb
    /\ NoLabelDb
    /\ NoHttp
    /\ NoFold

Next ==
    \/ \E p \in CreateTodo : Memory_create(p)
    \/ \E id \in Ids : Memory_find(id)
    \/ Memory_all
    \/ \E id \in Ids, p \in UpdateTodo : Memory_update(id, p)
    \/ \E id \in Ids : Memory_delete(id)

\* One caller making one call after the other on one repository.
Spec == Init /\ [][Next]_vars

\* ---------------------------------------------- extractor and handlers

\* #[validate(length(min = 1))] and #[validate(length(max = 100))]
MinTextLen == 1
MaxTextLen == 100

\* axum::http::StatusCode
OK == 200
CREATED == 201
NO_CONTENT == 204
BAD_REQUEST == 400
NOT_FOUND == 404

\* A text of n characters.
RECURSIVE TextOfLen(_)
TextOfLen(n) == IF n = 0 THEN "" ELSE "a" \o TextOfLen(n - 1)

\* A request body: bytes serde cannot read as a JSON object with fields of
\* the expected types, or a JSON object with any of the fields text,
\* completed and labels (an absent field is None).
Garbage == [kind |-> "garbage"]
JsonBody(text, completed, lbls) ==
    [kind |-> "json", text |-> text, completed |-> completed, labels |-> lbls]

\* Json::<CreateTodo>::from_request: `text` is required, the other fields
\* are ignored (None stands for the rejection).
Deserialize_CreateTodo(body) ==
    IF body.kind = "json" /\ body.text # None
    THEN Some([text |-> body.text[1]])
    ELSE None

\* Json::<UpdateTodo>::from_request: every field is optional.
Deserialize_UpdateTodo(body) ==
    IF body.kind = "json"
    THEN Some([text |-> body.text, completed |-> body.completed,
               labels |-> body.labels])
    ELSE None

\* A JSON object sent to POST /labels, with or without its name field.
LabelJsonBody(name) == [kind |-> "json", name |-> name]

\* Json::<CreateLabel>::from_request: `name` is required.
Deserialize_CreateLabel(body) ==
    IF body.kind = "json" /\ body.name # None
    THEN Some([name |-> body.name[1]])
    ELSE None

\* A validation that accepts everything.
NoValidation(p) == TRUE

\* Length rules whose upper limit is exclusive.
LengthBelow(t) == Len(t) >= MinTextLen /\ Len(t) < MaxTextLen

\* The two length rules: the character count is at least 1 and at most 100.
LengthOk(t) == Len(t) >= MinTextLen /\ Len(t) <= MaxTextLen

\* CreateTodo::validate, UpdateTodo::validate (the rules of an Option
\* field apply when it is Some), CreateLabel::validate
Validate_CreateTodo(p) == LengthOk(p.text)
Validate_UpdateTodo(p) == p.text = None \/ LengthOk(p.text[1])
Validate_CreateLabel(p) == LengthOk(p.name)

\* A response: status and body (a todo, a list of todos, or nothing) or,
\* for a rejection, the message.
Response(status, body) ==
    [kind |-> "Response", status |-> status, body |-> body, message |-> ""]
Rejection(status, message) ==
    [kind |-> "Response", status |-> status, body |-> None, message |-> message]

\* The handler panicked: the request is answered by no response of its.
Aborted == [kind |-> "Aborted"]

\* ValidateJson::from_request, given what Json::<T>::from_request gave and
\* whether value.validate() passes (asked only of a deserialized value).
from_request(value, valid) ==
    IF value = None
    THEN [ok |-> FALSE, validated |-> FALSE,
          rejection |-> Rejection(BAD_REQUEST, "Json parse error")]
    ELSE IF ~valid
    THEN [ok |-> FALSE, validated |-> TRUE,
          rejection |-> Rejection(BAD_REQUEST, "Validation error")]
    ELSE [ok |-> TRUE, validated |-> TRUE, payload |-> value[1]]

\* ValidateJson::<T>::from_request for the three payload types.
Extractor_CreateTodo(body) ==
    LET value == Deserialize_CreateTodo(body)
    IN  from_request(value, value # None /\ Validate_CreateTodo(value[1]))

Extractor_UpdateTodo(body) ==
    LET value == Deserialize_UpdateTodo(body)
    IN  from_request(value, value # None /\ Validate_UpdateTodo(value[1]))

Extractor_CreateLabel(body) ==
    LET value == Deserialize_CreateLabel(body)
    IN  from_request(value, value # None /\ Validate_CreateLabel(value[1]))

\* What each handler makes of the repository's result.
create_todo(res) ==
    IF res.kind = "Ok" THEN Response(CREATED, Some(res.val))
    ELSE IF res.kind = "Err" THEN Response(NOT_FOUND, None)
    ELSE Aborted

find_todo(res) ==
    IF res.kind = "Ok" THEN Response(OK, Some(res.val))
    ELSE IF res.kind = "Err" THEN Response(NOT_FOUND, None)
    ELSE Aborted

\* repository.all().await.unwrap()
all_todos(res) ==
    IF res.kind = "Ok" THEN Response(OK, Some(res.val))
    ELSE Aborted

update_todo(res) ==
    IF res.kind = "Ok" THEN Response(OK, Some(res.val))
    ELSE IF res.kind = "Err" THEN Response(NOT_FOUND, None)
    ELSE Aborted

delete_todo(res) ==
    IF res.kind = "Ok" THEN Response(NO_CONTENT, None)
    ELSE IF res.kind = "Err" THEN Response(NOT_FOUND, None)
    ELSE Aborted

\* The handler the router runs for the repository operation `op`.
Handle(op, res) ==
    CASE op = "create" -> create_todo(res)
      [] op = "find" -> find_todo(res)
      [] op = "all" -> all_todos(res)
      [] op = "update" -> update_todo(res)
      [] op = "delete" -> delete_todo(res)

Exchange(op, id, body, validated, called, resp) ==
    [op |-> op, id |-> id, body |-> body, validated |-> validated,
     called |-> called, resp |-> resp]

NoBody == [kind |-> "none"]

\* A request to the app over the in-memory repository touches the store
\* and nothing else.
HttpOthersUnchanged == UNCHANGED << taskVars, dbVars, labelVars, fold >>

\* POST /todos
Http_create_todo(body) ==
    /\ HttpOthersUnchanged
    /\ LET x == Extractor_CreateTodo(body)
       IN  IF x.ok
           THEN /\ ForMemory_create(x.payload)
                /\ http' = Exchange("create", 0, body, TRUE, TRUE,
                                    create_todo(last'.res))
           ELSE /\ http' = Exchange("create", 0, body, x.validated, FALSE,
                                    x.rejection)
                /\ UNCHANGED memVars

\* GET /todos/:id
Http_find_todo(id) ==
    /\ HttpOthersUnchanged
    /\ ForMemory_find(id)
    /\ http' = Exchange("find", id, NoBody, FALSE, TRUE, find_todo(last'.res))

\* GET /todos
Http_all_todos ==
    /\ HttpOthersUnchanged
    /\ ForMemory_all
    /\ http' = Exchange("all", 0, NoBody, FALSE, TRUE, all_todos(last'.res))

\* PATCH /todos/:id
Http_update_todo(id, body) ==
    /\ HttpOthersUnchanged
    /\ LET x == Extractor_UpdateTodo(body)
       IN  IF x.ok
           THEN /\ ForMemory_update(id, x.payload)
                /\ http' = Exchange("update", id, body, TRUE, TRUE,
                                    update_todo(last'.res))
           ELSE /\ http' = Exchange("update", id, body, x.validated, FALSE,
                                    x.rejection)
                /\ UNCHANGED memVars

\* DELETE /todos/:id
Http_delete_todo(id) ==
    /\ HttpOthersUnchanged
    /\ ForMemory_delete(id)
    /\ http' = Exchange("delete", id, NoBody, FALSE, TRUE,
                        delete_todo(last'.res))

\* The texts of request bodies: empty, valid, and one character too long.
HttpTexts == {"", "a", TextOfLen(MaxTextLen + 1)}

CreateBodies ==
    {Garbage} \cup
    { JsonBody(t, None, None) : t \in {None} \cup { Some(x) : x \in HttpTexts } }

\* PATCH bodies: any of a text (valid or too long), completed = true and
\* a labels list naming a label the repository does not hold.
UpdateBodies ==
    {Garbage} \cup
    { JsonBody(t, c, l) :
        t \in {None, Some("a"), Some(TextOfLen(MaxTextLen + 1))},
        c \in {None, Some(TRUE)},
        l \in {None, Some(<<2>>)} }

NextHttp ==
    \/ \E b \in CreateBodies : Http_create_todo(b)
    \/ \E id \in Ids : Http_find_todo(id)
    \/ Http_all_todos
    \/ \E id \in Ids, b \in UpdateBodies : Http_update_todo(id, b)
    \/ \E id \in Ids : Http_delete_todo(id)

\* One client sending one request after the other to the app built over
\* the in-memory repository.
SpecHttp == Init /\ [][NextHttp]_vars

\* The extractor alone, run for each payload type on bodies whose text is
\* of every length up to MaxBodyLen.
BodyTexts == { TextOfLen(n) : n \in 0..MaxBodyLen }

Accepted(payload) == [kind |-> "Accepted", payload |-> payload]

\* What the extractor hands on: the payload or the rejection.
Extracted(x) == IF x.ok THEN Accepted(x.payload) ELSE x.rejection

ExtractOthersUnchanged == UNCHANGED << memVars, taskVars, dbVars, labelVars, fold >>

\* ValidateJson::<CreateTodo>::from_request
Extract_CreateTodo(body) ==
    /\ LET x == Extractor_CreateTodo(body)
       IN  http' = Exchange("CreateTodo", 0, body, x.validated, FALSE, Extracted(x))
    /\ ExtractOthersUnchanged

\* ValidateJson::<UpdateTodo>::from_request
Extract_UpdateTodo(body) ==
    /\ LET x == Extractor_UpdateTodo(body)
       IN  http' = Exchange("UpdateTodo", 0, body, x.validated, FALSE, Extracted(x))
    /\ ExtractOthersUnchanged

\* ValidateJson::<CreateLabel>::from_request
Extract_CreateLabel(body) ==
    /\ LET x == Extractor_CreateLabel(body)
       IN  http' = Exchange("CreateLabel", 0, body, x.validated, FALSE, Extracted(x))
    /\ ExtractOthersUnchanged

TodoBodies ==
    {Garbage} \cup
    { JsonBody(t, c, None) :
        t \in {None} \cup { Some(x) : x \in BodyTexts }, c \in {None, Some(TRUE)} }

LabelBodies ==
    {Garbage} \cup
    { LabelJsonBody(n) : n \in {None} \cup { Some(x) : x \in BodyTexts } }

NextExtract ==
    \/ \E b \in TodoBodies : Extract_CreateTodo(b)
    \/ \E b \in TodoBodies : Extract_UpdateTodo(b)
    \/ \E b \in LabelBodies : Extract_CreateLabel(b)

SpecExtract == Init /\ [][NextExtract]_vars

\* ------------------------------------- concurrent create calls (in memory)

Tasks == 1..NumTasks

\* A lock that excludes nobody.
NoExclusion(l) == TRUE

\* RwLock::write() returns once no other guard is held.
CanWrite(l) == l.writer = 0 /\ l.readers = {}

\* RwLock::read() returns once no write guard is held.
CanRead(l) == l.writer = 0

\* A lock whose guards are never given back.
NeverUnlocked(l, t) == l

\* The lock after task t dropped the guard it held.
Unlocked(l, t) ==
    [writer |-> IF l.writer = t THEN 0 ELSE l.writer, readers |-> l.readers \ {t}]

\* create, line 301: let mut store = self.write_store_ref();
Create_lock(t) ==
    /\ task[t].pc = "start"
    /\ task[t].op = "create"
    /\ CanWrite(lock)
    /\ IF LockUsable
       THEN /\ lock' = [lock EXCEPT !.writer = t]
            /\ task' = [task EXCEPT ![t].pc = "len"]
       ELSE /\ task' = [task EXCEPT ![t].pc = "done", ![t].res = Panic("PoisonError")]
            /\ UNCHANGED lock
    /\ UNCHANGED << memVars, dbVars, restVars >>

\* create, line 302: let id = (store.len() + 1) as i32;
Create_len(t) ==
    /\ task[t].pc = "len"
    /\ task' = [task EXCEPT ![t].pc = "insert", ![t].id = NextId(store)]
    /\ UNCHANGED << memVars, lock, dbVars, restVars >>

\* create, lines 303-305: build the todo, insert it, return it; the write
\* guard is dropped on return.
Create_insert(t) ==
    /\ task[t].pc = "insert"
    /\ LET todo == TodoEntity_new(task[t].id, task[t].payload.text)
       IN  /\ store' = Insert(store, task[t].id, todo)
           /\ task' = [task EXCEPT ![t].pc = "done", ![t].res = Ok(todo)]
    /\ lock' = Unlocked(lock, t)
    /\ UNCHANGED << labels, poisoned, last, issued, dbVars, restVars >>

\* The store after k creates and no delete.
RECURSIVE CreatedStores(_)
CreatedStores(k) ==
    IF k = 0 THEN { << >> }
    ELSE { Insert(m, NextId(m), CreatedTodo(m, p)) :
             m \in CreatedStores(k - 1), p \in CreateTodo }

InitCreates ==
    /\ store \in UNION { CreatedStores(k) : k \in 0..MaxPreTodos }
    /\ labels = OneLabel
    /\ poisoned = FALSE
    /\ last = NoCall
    /\ issued = {}
    /\ lock = [writer |-> 0, readers |-> {}]
    /\ task \in [Tasks -> [pc : {"start"}, op : {"create"}, payload : CreateTodo,
                           id : {0}, res : {None}]]
    /\ NoDb
    /\ NoLabelDb
    /\ NoHttp
    /\ NoFold

NextCreates ==
    \E t \in Tasks : Create_lock(t) \/ Create_len(t) \/ Create_insert(t)

\* NumTasks tasks, each calling create once on a store no delete touched.
SpecCreates == InitCreates /\ [][NextCreates]_vars

\* ------------------------------------- concurrent calls of every operation

Workers == 1..NumWorkers

\* A call about to be made by a task.
Job(op, id, payload) ==
    [pc |-> "start", op |-> op, id |-> id, payload |-> payload,
     todo |-> None, res |-> None]

\* The calls a task may make: each operation, on the stored id; updates of
\* the text alone, of completed alone, of both, and one asking for a label
\* that is not stored.
Jobs ==
    { Job("create", 0, [text |-> "b"]),
      Job("find", 1, None),
      Job("all", 0, None),
      Job("update", 1, [text |-> Some("b"), completed |-> None, labels |-> None]),
      Job("update", 1, [text |-> None, completed |-> Some(TRUE), labels |-> None]),
      Job("update", 1, [text |-> Some("b"), completed |-> Some(TRUE), labels |-> None]),
      Job("update", 1, [text |-> None, completed |-> None, labels |-> Some(<<2>>)]),
      Job("delete", 1, None) }

\* The task's call is over: it returned res or panicked with it.
Returned(t, res) == task' = [task EXCEPT ![t].pc = "done", ![t].res = res]

\* find and all, `let store = self.read_store_ref();`
Read_lock(t) ==
    /\ task[t].pc = "start"
    /\ task[t].op \in {"find", "all"}
    /\ CanRead(lock)
    /\ IF LockUsable
       THEN /\ lock' = [lock EXCEPT !.readers = @ \cup {t}]
            /\ task' = [task EXCEPT ![t].pc = "reading"]
       ELSE /\ Returned(t, Panic("PoisonError"))
            /\ UNCHANGED lock
    /\ UNCHANGED << memVars, dbVars, restVars >>

\* find, lines 310-314: get, clone, return; the read guard is dropped.
Find_get(t) ==
    /\ task[t].pc = "reading"
    /\ task[t].op = "find"
    /\ Returned(t, FindResult(store, task[t].id))
    /\ lock' = Unlocked(lock, t)
    /\ UNCHANGED << memVars, dbVars, restVars >>

\* all, line 319: clone the values, return; the read guard is dropped.
All_values(t) ==
    /\ task[t].pc = "reading"
    /\ task[t].op = "all"
    /\ \E s \in ValueOrders(store) : Returned(t, Ok(s))
    /\ lock' = Unlocked(lock, t)
    /\ UNCHANGED << memVars, dbVars, restVars >>

\* update and delete, `let mut store = self.write_store_ref();`
Write_lock(t) ==
    /\ task[t].pc = "start"
    /\ task[t].op \in {"update", "delete"}
    /\ CanWrite(lock)
    /\ IF LockUsable
       THEN /\ lock' = [lock EXCEPT !.writer = t]
            /\ task' = [task EXCEPT ![t].pc =
                           IF task[t].op = "update" THEN "get" ELSE "remove"]
       ELSE /\ Returned(t, Panic("PoisonError"))
            /\ UNCHANGED lock
    /\ UNCHANGED << memVars, dbVars, restVars >>

\* update, lines 324-336: get the stored todo (NotFound returns here),
\* build the new one; resolve_labels may panic, which drops the write
\* guard while unwinding and poisons the lock.
Update_get(t) ==
    /\ task[t].pc = "get"
    /\ LET id == task[t].id
       IN  IF id \notin DOMAIN store
           THEN /\ Returned(t, NotFound(id))
                /\ lock' = Unlocked(lock, t)
                /\ UNCHANGED poisoned
           ELSE LET r == NewLabels(store[id], task[t].payload)
                IN  IF r.ok
                    THEN /\ task' = [task EXCEPT
                                ![t].pc = "write",
                                ![t].todo = Some(UpdatedTodo(id, store[id],
                                                             task[t].payload, r.val))]
                         /\ UNCHANGED << lock, poisoned >>
                    ELSE /\ Returned(t, Panic("unwrap on None"))
                         /\ poisoned' = TRUE
                         /\ lock' = Unlocked(lock, t)
    /\ UNCHANGED << store, labels, last, issued, dbVars, restVars >>

\* HashMap::insert on a stored key writes the new value over the old one
\* in place, field after field: the map once the text alone is written.
PartlyWritten(m, k, v) ==
    IF k \in DOMAIN m THEN Insert(m, k, [m[k] EXCEPT !.text = v.text]) ELSE m

\* update, line 337: store.insert(id, todo.clone()), the first field.
Update_insert_text(t) ==
    /\ task[t].pc = "write"
    /\ store' = PartlyWritten(store, task[t].id, task[t].todo[1])
    /\ task' = [task EXCEPT ![t].pc = "rest"]
    /\ UNCHANGED << labels, poisoned, last, issued, lock, dbVars, restVars >>

\* update, lines 337-338: the insert is finished and the todo returned;
\* the write guard is dropped.
Update_insert_rest(t) ==
    /\ task[t].pc = "rest"
    /\ store' = Insert(store, task[t].id, task[t].todo[1])
    /\ Returned(t, Ok(task[t].todo[1]))
    /\ lock' = Unlocked(lock, t)
    /\ UNCHANGED << labels, poisoned, last, issued, dbVars, restVars >>

\* delete, lines 343-344: remove, return; the write guard is dropped.
Delete_remove(t) ==
    /\ task[t].pc = "remove"
    /\ LET id == task[t].id
       IN  IF id \in DOMAIN store
           THEN /\ store' = Remove(store, id)
                /\ Returned(t, Ok(<<>>))
           ELSE /\ Returned(t, NotFound(id))
                /\ UNCHANGED store
    /\ lock' = Unlocked(lock, t)
    /\ UNCHANGED << labels, poisoned, last, issued, dbVars, restVars >>

\* The store the tasks start on: one todo, as one create left it.
FirstTodo == TodoEntity_new(1, "a")

InitTasks ==
    /\ store = Insert(<< >>, 1, FirstTodo)
    /\ labels = OneLabel
    /\ poisoned = FALSE
    /\ last = NoCall
    /\ issued = {}
    /\ lock = [writer |-> 0, readers |-> {}]
    /\ task \in [Workers -> Jobs]
    /\ NoDb
    /\ NoLabelDb
    /\ NoHttp
    /\ NoFold

\* A step of task t's call.
TaskStep(t) ==
    \/ Read_lock(t)
    \/ Find_get(t)
    \/ All_values(t)
    \/ Write_lock(t)
    \/ Update_get(t)
    \/ Update_insert_text(t)
    \/ Update_insert_rest(t)
    \/ Delete_remove(t)
    \/ Create_lock(t)
    \/ Create_len(t)
    \/ Create_insert(t)

NextTasks == \E t \in Workers : TaskStep(t)

\* NumWorkers tasks, each making one call on the shared repository.
SpecTasks == InitTasks /\ [][NextTasks]_vars

\* The runtime keeps running every task that can take a step, and a task
\* waiting for the lock is woken once the lock can be taken.
SpecTasksFair == SpecTasks /\ \A t \in Workers : WF_vars(TaskStep(t))

\* ------------------------------------------------ relational repository

Procs == {"p", "q"}

DbIds == 1..(MaxRows + 1)

\* struct TodoWithLabelFromRow { id, text, completed }
Row(id, text, completed) == [id |-> id, text |-> text, completed |-> completed]

\* RepositoryError::Unexpected(e.to_string())
Unexpected(msg) == [kind |-> "Err", err |-> "Unexpected", msg |-> msg]

\* A sqlx::Error passed on by `?` as it is (wrapped by anyhow only).
SqlxError(e) == [kind |-> "Err", err |-> "sqlx", e |-> e]

\* fold_entities: one TodoEntity per row, in row order, labels empty.
fold_entities(rs) ==
    [i \in DOMAIN rs |-> TodoEntity(rs[i].id, rs[i].text, rs[i].completed, <<>>)]

\* fold_entity: fold_entities(vec![row]).first()
fold_entity(row) == fold_entities(<<row>>)[1]

\* The payloads of the relational update, which never reads `labels`.
DbUpdateTodo == { p \in UpdateTodo : p.labels = None }

\* No response yet.
NoResponse == [kind |-> "None"]

IdleProc == [pc |-> "idle", op |-> "none", id |-> 0, payload |-> None,
             old |-> None, res |-> None, resp |-> NoResponse]

\* The repository call of caller p returns res to its handler, which
\* answers the request.
Done(p, op, id, payload, old, res) ==
    proc' = [proc EXCEPT ![p] = [pc |-> "done", op |-> op, id |-> id,
                                 payload |-> payload, old |-> old, res |-> res,
                                 resp |-> Handle(op, res)]]

\* The rows of a table by ascending id.
RECURSIVE RowsAsc(_)
RowsAsc(t) ==
    IF DOMAIN t = {} THEN <<>>
    ELSE LET low == CHOOSE k \in DOMAIN t : \A j \in DOMAIN t : k <= j
         IN  <<t[low]>> \o RowsAsc([x \in DOMAIN t \ {low} |-> t[x]])

\* SELECT * FROM todos ORDER BY id DESC
RECURSIVE RowsDesc(_)
RowsDesc(t) ==
    IF DOMAIN t = {} THEN <<>>
    ELSE LET top == CHOOSE k \in DOMAIN t : \A j \in DOMAIN t : j <= k
         IN  <<t[top]>> \o RowsDesc(Remove(t, top))

\* TodoRepositoryForDb::create: INSERT ... RETURNING *, fetch_one, `?`
Db_create(p, payload) ==
    /\ proc[p].pc = "idle"
    /\ serial <= MaxRows
    /\ \/ LET row == Row(serial, payload.text, FALSE)
          IN  /\ rows' = Insert(rows, serial, row)
              /\ serial' = serial + 1
              /\ Done(p, "create", 0, Some(payload), None, Ok(fold_entity(row)))
       \/ /\ Done(p, "create", 0, Some(payload), None, SqlxError("Io"))
          /\ UNCHANGED << rows, serial >>
    /\ UNCHANGED << memVars, taskVars, restVars >>

\* What find's SELECT ... fetch_one().map_err(..) gives on table t.
DbFindResult(t, id) ==
    IF id \in DOMAIN t THEN Ok(fold_entity(t[id])) ELSE NotFound(id)

\* TodoRepositoryForDb::find
Db_find(p, id) ==
    /\ proc[p].pc = "idle"
    /\ \/ Done(p, "find", id, None, None, DbFindResult(rows, id))
       \/ Done(p, "find", id, None, None, Unexpected("Io"))
    /\ UNCHANGED << memVars, taskVars, rows, serial, restVars >>

\* TodoRepositoryForDb::all
Db_all(p) ==
    /\ proc[p].pc = "idle"
    /\ \/ Done(p, "all", 0, None, None, Ok(fold_entities(RowsDesc(rows))))
       \/ Done(p, "all", 0, None, None, SqlxError("Io"))
    /\ UNCHANGED << memVars, taskVars, rows, serial, restVars >>

\* TodoRepositoryForDb::update, line 131: let old_todo = self.find(id).await?;
Db_update_find(p, id, payload) ==
    /\ proc[p].pc = "idle"
    /\ \/ IF id \in DOMAIN rows
          THEN proc' = [proc EXCEPT ![p] =
                          [pc |-> "updating", op |-> "update", id |-> id,
                           payload |-> Some(payload),
                           old |-> Some(fold_entity(rows[id])), res |-> None,
                           resp |-> NoResponse]]
          ELSE Done(p, "update", id, Some(payload), None, NotFound(id))
       \/ Done(p, "update", id, Some(payload), None, Unexpected("Io"))
    /\ UNCHANGED << memVars, taskVars, rows, serial, restVars >>

\* A row update that keeps the current value of every field the payload
\* does not carry (SET text = COALESCE($1, text), ...).
MergedRow(id, cur, old, payload) ==
    Row(id, unwrap_or(payload.text, cur.text),
            unwrap_or(payload.completed, cur.completed))

\* The row update binds: text=$1, completed=$2 WHERE id=$3, with
\* $1 = payload.text.unwrap_or(old_todo.text) and
\* $2 = payload.completed.unwrap_or(old_todo.completed).
UpdatedRow(id, cur, old, payload) ==
    Row(id, unwrap_or(payload.text, old.text),
            unwrap_or(payload.completed, old.completed))

\* TodoRepositoryForDb::update, lines 132-141: UPDATE ... RETURNING *,
\* fetch_one, `?`
Db_update_write(p) ==
    /\ proc[p].pc = "updating"
    /\ LET id == proc[p].id
           payload == proc[p].payload
           old == proc[p].old
       IN  \/ IF id \in DOMAIN rows
              THEN LET row == UpdatedRow(id, rows[id], old[1], payload[1])
                   IN  /\ rows' = Insert(rows, id, row)
                       /\ Done(p, "update", id, payload, old, Ok(fold_entity(row)))
              ELSE /\ Done(p, "update", id, payload, old, SqlxError("RowNotFound"))
                   /\ UNCHANGED rows
           \/ /\ Done(p, "update", id, payload, old, SqlxError("Io"))
              /\ UNCHANGED rows
    /\ UNCHANGED << memVars, taskVars, serial, restVars >>

\* TodoRepositoryForDb::delete: DELETE ... execute().map_err(..); execute
\* answers with the number of rows affected and never with RowNotFound.
Db_delete(p, id) ==
    /\ proc[p].pc = "idle"
    /\ \/ /\ rows' = Remove(rows, id)
          /\ Done(p, "delete", id, None, None, Ok(<<>>))
       \/ /\ Done(p, "delete", id, None, None, Unexpected("Io"))
          /\ UNCHANGED rows
    /\ UNCHANGED << memVars, taskVars, serial, restVars >>

\* The tables the earlier calls may have left: at most MaxRows rows were
\* inserted, under the ids 1, 2, ..., and any of them updated or deleted.
DbTables(n) ==
    UNION { [S -> Texts \X BOOLEAN] : S \in SUBSET (1..n) }

InitDb ==
    /\ store = << >>
    /\ labels = OneLabel
    /\ poisoned = FALSE
    /\ last = NoCall
    /\ issued = {}
    /\ NoTasks
    /\ serial \in 1..(MaxRows + 1)
    /\ \E t \in DbTables(serial - 1) :
          rows = [k \in DOMAIN t |-> Row(k, t[k][1], t[k][2])]
    /\ proc = [p \in Procs |-> IdleProc]
    /\ NoLabelDb
    /\ NoHttp
    /\ NoFold

NextDb ==
    \E p \in Procs :
        \/ \E c \in CreateTodo : Db_create(p, c)
        \/ \E id \in DbIds : Db_find(p, id)
        \/ Db_all(p)
        \/ \E id \in DbIds, u \in DbUpdateTodo : Db_update_find(p, id, u)
        \/ Db_update_write(p)
        \/ \E id \in DbIds : Db_delete(p, id)

\* Two callers, each making one call on the shared connection pool.
SpecDb == InitDb /\ [][NextDb]_vars

\* ------------------------------------------------- fold_entities alone

\* The rows handed to fold_entities: every sequence of at most MaxFoldRows
\* rows, rows of one todo id included more than once (as a join yields).
FoldRows == { Row(id, t, FALSE) : id \in {1, 2}, t \in Texts }

RowSeqs == UNION { [1..n -> FoldRows] : n \in 0..MaxFoldRows }

\* A call of fold_entities on the rows it was handed.
Fold_entities_call ==
    /\ fold.out = None
    /\ fold' = [fold EXCEPT !.out = Some(fold_entities(fold.rows))]
    /\ UNCHANGED << memVars, taskVars, dbVars, labelVars, http >>

InitFold ==
    /\ store = << >>
    /\ labels = OneLabel
    /\ poisoned = FALSE
    /\ last = NoCall
    /\ issued = {}
    /\ NoTasks
    /\ NoDb
    /\ NoLabelDb
    /\ NoHttp
    /\ fold \in [rows : RowSeqs, out : {None}]

NextFold == Fold_entities_call

SpecFold == InitFold /\ [][NextFold]_vars

\* ------------------------------------------- relational label repository

LabelCallers == 1..NumLabelCallers

\* The names callers create labels with.
LabelNames == {"x", "y"}

\* RepositoryError::Duplicate(label.id)
Duplicate(id) == [kind |-> "Err", err |-> "Duplicate", id |-> id]

\* A name lookup that never finds a row.
NoRowsNamed(t, name) == {}

\* SELECT * FROM labels WHERE name = $1: the ids of the matching rows.
RowsNamed(t, name) == { k \in DOMAIN t : t[k].name = name }

\* INSERT INTO labels (name) VALUES ($1): the table takes the row under the
\* next id of its sequence; it has no constraint on name.
LabelInserted(t, id, name) == Insert(t, id, Label(id, name))

IdleLabelCaller == [pc |-> "idle", op |-> "none", id |-> 0, name |-> "", res |-> None]

LabelDone(c, name, res) ==
    lproc' = [lproc EXCEPT ![c] = [pc |-> "done", op |-> "create", id |-> 0,
                                   name |-> name, res |-> res]]

\* LabelRepositoryForDb::create, lines 39-45: the existence check.
\* fetch_optional gives the first matching row the database yields.
Label_create_select(c, name) ==
    /\ lproc[c].pc = "idle"
    /\ \/ IF RowsNamed(ltable, name) # {}
          THEN \E k \in RowsNamed(ltable, name) : LabelDone(c, name, Duplicate(ltable[k].id))
          ELSE lproc' = [lproc EXCEPT ![c] = [pc |-> "inserting", op |-> "create",
                                              id |-> 0, name |-> name,
                                              res |-> None]]
       \/ LabelDone(c, name, SqlxError("Io"))
    /\ UNCHANGED << memVars, taskVars, dbVars, ltable, lserial, http, fold >>

\* LabelRepositoryForDb::create, lines 47-53: INSERT ... RETURNING *
Label_create_insert(c) ==
    /\ lproc[c].pc = "inserting"
    /\ \/ /\ ltable' = LabelInserted(ltable, lserial, lproc[c].name)
          /\ lserial' = lserial + 1
          /\ LabelDone(c, lproc[c].name, Ok(Label(lserial, lproc[c].name)))
       \/ /\ LabelDone(c, lproc[c].name, SqlxError("Io"))
          /\ UNCHANGED << ltable, lserial >>
    /\ UNCHANGED << memVars, taskVars, dbVars, http, fold >>

\* The ids callers pass to the label repository's delete.
LabelDbIds == 1..2

\* LabelRepositoryForDb::all: todo!()
Label_all(c) ==
    /\ lproc[c].pc = "idle"
    /\ lproc' = [lproc EXCEPT ![c] = [pc |-> "done", op |-> "all", id |-> 0,
                                     name |-> "",
                                     res |-> Panic("not yet implemented")]]
    /\ UNCHANGED << memVars, taskVars, dbVars, ltable, lserial, http, fold >>

\* LabelRepositoryForDb::delete: todo!()
Label_delete(c, id) ==
    /\ lproc[c].pc = "idle"
    /\ lproc' = [lproc EXCEPT ![c] = [pc |-> "done", op |-> "delete", id |-> id,
                                     name |-> "",
                                     res |-> Panic("not yet implemented")]]
    /\ UNCHANGED << memVars, taskVars, dbVars, ltable, lserial, http, fold >>

InitLabels ==
    /\ store = << >>
    /\ labels = OneLabel
    /\ poisoned = FALSE
    /\ last = NoCall
    /\ issued = {}
    /\ NoTasks
    /\ NoDb
    /\ ltable = << >>
    /\ lserial = 1
    /\ lproc = [c \in LabelCallers |-> IdleLabelCaller]
    /\ NoHttp
    /\ NoFold

NextLabels ==
    \E c \in LabelCallers :
        \/ \E n \in LabelNames : Label_create_select(c, n)
        \/ Label_create_insert(c)
        \/ Label_all(c)
        \/ \E id \in LabelDbIds : Label_delete(c, id)

\* NumLabelCallers callers, each making one call on the shared pool.
SpecLabels == InitLabels /\ [][NextLabels]_vars

\* ======================================================= claims (Spec)

\* A step that is a call of `op`: every call writes its record to `last`.
CallStep(op) == last'.op = op /\ vars' # vars

\* A create has just returned; it overwrote the todo stored under its id.
CreateReturned == last.op = "create" /\ last.res.kind = "Ok"

\* C1: whenever create has just returned a todo, a find on the returned id
\* called right then returns that same todo (same id, text, completed =
\* false, empty labels).
C1_CreateThenFind ==
    CreateReturned =>
        /\ FindOutcome(last.res.val.id) = Ok(last.res.val)
        /\ last.res.val = TodoEntity_new(last.res.val.id, last.payload[1].text)

\* C1 witness: a create returned an id that was stored when it was called
\* (the store did not grow), so the find has to see the overwritten entry.
C1_Witness ==
    /\ CreateReturned
    /\ Cardinality(DOMAIN store) < last.res.val.id

\* C2 (as claimed): the id create returns is not stored at the moment of
\* the call, the store grows by exactly one todo, and every todo stored
\* before is still stored unchanged.
C2_CreateIsFresh ==
    [][ (CallStep("create") /\ last'.res.kind = "Ok") =>
            /\ last'.res.val.id \notin DOMAIN store
            /\ Cardinality(DOMAIN store') = Cardinality(DOMAIN store) + 1
            /\ \A k \in DOMAIN store : k \in DOMAIN store' /\ store'[k] = store[k]
      ]_vars

\* C3 (as claimed): no create returns an id an earlier create returned.
C3_IdsNeverReused ==
    CreateReturned => last.res.val.id \notin issued

\* C4 (as claimed): delete of a stored id succeeds and removes it; delete
\* of an id that is not stored (such as one just deleted) returns NotFound
\* and leaves the store unchanged.
C4_DeleteTwice ==
    [][ CallStep("delete") =>
            IF last'.id \in DOMAIN store
            THEN last'.res = Ok(<<>>) /\ store' = Remove(store, last'.id)
            ELSE last'.res = NotFound(last'.id) /\ store' = store
      ]_vars

\* The labels with the requested ids, in the requested order.
LabelWithId(id) == CHOOSE l \in { labels[i] : i \in DOMAIN labels } : l.id = id
RequestedLabels(ids) == [i \in DOMAIN ids |-> LabelWithId(ids[i])]
AllStoredLabels(ids) ==
    \A i \in DOMAIN ids : \E j \in DOMAIN labels : labels[j].id = ids[i]

\* The payload of the call `c` asks only for labels the repository holds.
AsksStoredLabels(c) ==
    c.payload # None =>
        (c.payload[1].labels # None => AllStoredLabels(c.payload[1].labels[1]))

\* C6 (as claimed): an update of a stored todo, with a payload whose label
\* ids all exist, returns a todo in which exactly the fields present in the
\* payload are overwritten and every absent field keeps its stored value,
\* and that todo is what is stored afterwards.
C6_PartialUpdate ==
    [][ (CallStep("update") /\ last'.id \in DOMAIN store /\ AsksStoredLabels(last')) =>
            /\ last'.res.kind = "Ok"
            /\ last'.payload # None
            /\ LET p == last'.payload[1]
                   old == store[last'.id]
                   new == last'.res.val
               IN  /\ new.id = last'.id
                   /\ new.text = (IF p.text = None THEN old.text ELSE p.text[1])
                   /\ new.completed =
                        (IF p.completed = None THEN old.completed ELSE p.completed[1])
                   /\ new.labels =
                        (IF p.labels = None THEN old.labels
                         ELSE RequestedLabels(p.labels[1]))
                   /\ last'.id \in DOMAIN store' /\ store'[last'.id] = new
      ]_vars

\* C7 (as claimed): find and update of an id that is not stored fail with
\* NotFound carrying that id and leave the store unchanged.
C7_AbsentIsNotFound ==
    [][ ((CallStep("find") \/ CallStep("update")) /\ last'.id \notin DOMAIN store) =>
            /\ last'.res = NotFound(last'.id)
            /\ store' = store
      ]_vars

\* C8 (as claimed): every todo create returns has completed = false, and
\* the completed flag stored under an id changes only by an update of that
\* id whose payload carries a completed value.
C8_CompletedNeverReset ==
    [][ /\ (CallStep("create") /\ last'.res.kind = "Ok") => ~last'.res.val.completed
        /\ \A k \in DOMAIN store \cap DOMAIN store' :
              store'[k].completed # store[k].completed =>
                  /\ last'.op = "update" /\ last'.id = k
                  /\ last'.payload # None /\ last'.payload[1].completed # None
      ]_vars

\* ================================================ claims (SpecCreates)

DoneTasks == { t \in Tasks : task[t].pc = "done" }

\* C9: the ids concurrent creates returned are pairwise distinct, and once
\* all NumTasks creates have returned, each returned an Ok todo that is
\* stored under its id.
C9_ConcurrentCreates ==
    /\ \A t \in DoneTasks, u \in DoneTasks :
          (t # u /\ task[t].res.kind = "Ok" /\ task[u].res.kind = "Ok") =>
              task[t].res.val.id # task[u].res.val.id
    /\ DoneTasks = Tasks =>
          \A t \in Tasks :
              /\ task[t].res.kind = "Ok"
              /\ task[t].res.val.id \in DOMAIN store
              /\ store[task[t].res.val.id] = task[t].res.val

\* C9 witness: all creates returned, on a store that held todos before.
C9_Witness ==
    /\ DoneTasks = Tasks
    /\ Cardinality(DOMAIN store) = MaxPreTodos + NumTasks

\* ===================================================== claims (SpecDb)

\* Caller p has just run the one statement of `op`, or the last one.
DbReturned(p, op) ==
    proc[p].pc # "done" /\ proc'[p].pc = "done" /\ proc'[p].op = op

\* C5 (as claimed): a delete whose DELETE statement ran fails with
\* NotFound when no row has the id, and succeeds only when it removed one.
C5_DbDeleteNotFound ==
    [][ \A p \in Procs :
          (DbReturned(p, "delete") /\ proc'[p].res # Unexpected("Io")) =>
              IF proc'[p].id \in DOMAIN rows
              THEN proc'[p].res = Ok(<<>>) /\ proc'[p].id \notin DOMAIN rows'
              ELSE proc'[p].res = NotFound(proc'[p].id)
      ]_vars

\* Caller p finished an update of todo k that carried only `field`, and
\* changed it from the value it had read.
UpdatedOnly(p, k, field) ==
    /\ proc[p].pc = "done" /\ proc[p].op = "update" /\ proc[p].id = k
    /\ proc[p].res.kind = "Ok"
    /\ LET pl == proc[p].payload[1]
           old == proc[p].old[1]
       IN  IF field = "text"
           THEN pl.text # None /\ pl.completed = None /\ pl.text[1] # old.text
           ELSE pl.completed # None /\ pl.text = None
                /\ pl.completed[1] # old.completed

\* Both callers read the same row of k before either of them wrote.
BothReadFirst(p, q, k) ==
    /\ p # q
    /\ UpdatedOnly(p, k, "text")
    /\ UpdatedOnly(q, k, "completed")
    /\ proc[p].old = proc[q].old

\* C10: when two concurrent updates of one id, one carrying only text and
\* one only completed, both read the row before either writes, the row
\* stored afterwards is the result of one of them alone: it carries the
\* new value of one caller and, for the other caller's field, the old
\* value both had read.
C10_LostUpdate ==
    \A p \in Procs, q \in Procs, k \in DbIds :
        BothReadFirst(p, q, k) =>
            LET old == proc[p].old[1]
                row == fold_entity(rows[k])
            IN  /\ k \in DOMAIN rows
                /\ \/ /\ row = proc[p].res.val
                      /\ row.text = proc[p].payload[1].text[1]
                      /\ row.completed = old.completed
                   \/ /\ row = proc[q].res.val
                      /\ row.completed = proc[q].payload[1].completed[1]
                      /\ row.text = old.text

\* C10 witness: such an interleaving has happened, and the text one caller
\* wrote (and was answered with) is gone from the row.
C10_Witness ==
    \E p \in Procs, q \in Procs, k \in DbIds :
        /\ BothReadFirst(p, q, k)
        /\ rows[k].text # proc[p].res.val.text
        /\ rows[k].completed = proc[q].res.val.completed

\* Caller p's UPDATE statement has just run on a table in which the row it
\* had read is gone, and the driver reported no transport failure.
UpdateFoundNoRow(p) ==
    /\ proc[p].pc = "updating"
    /\ DbReturned(p, "update")
    /\ proc[p].id \notin DOMAIN rows
    /\ proc'[p].res # SqlxError("Io")

\* C11 (as claimed): when the row was deleted between update's find and
\* its UPDATE statement, update returns the repository's NotFound error
\* for that id and the row stays deleted.
C11_UpdateAfterDelete ==
    [][ \A p \in Procs :
          UpdateFoundNoRow(p) =>
              /\ proc'[p].res = NotFound(proc[p].id)
              /\ proc[p].id \notin DOMAIN rows'
      ]_vars

\* C12 (as claimed): every error a relational operation returns is the
\* repository's NotFound or Unexpected, never a raw driver error.
C12_DriverErrorsMapped ==
    \A p \in Procs :
        (proc[p].pc = "done" /\ proc[p].res.kind = "Err") =>
            proc[p].res.err \in {"NotFound", "Unexpected"}

\* ================================================= claims (SpecLabels)

\* Caller c has just run its existence check, which the driver answered.
LabelChecked(c) ==
    /\ lproc[c].pc = "idle"
    /\ lproc'[c].pc # "idle"
    /\ lproc'[c].op = "create"
    /\ lproc'[c].res # SqlxError("Io")

\* The ids of the labels stored under this name.
StoredNamed(name) == { k \in DOMAIN ltable : ltable[k].name = name }

\* Caller c has just inserted its row.
LabelInsertedBy(c) ==
    lproc[c].pc = "inserting" /\ lproc'[c].pc = "done" /\ lproc'[c].res.kind = "Ok"

\* C13: a create whose name is stored when its existence check runs fails
\* with Duplicate carrying the id of a stored label of that name and
\* inserts no row; a create that inserts while its name is still not
\* stored (as when the creates run one after the other) leaves exactly one
\* label of that name.
C13_SequentialDuplicate ==
    [][ \A c \in LabelCallers :
          /\ (LabelChecked(c) /\ StoredNamed(lproc'[c].name) # {}) =>
                /\ lproc'[c].pc = "done"
                /\ lproc'[c].res.kind = "Err"
                /\ lproc'[c].res.err = "Duplicate"
                /\ lproc'[c].res.id \in StoredNamed(lproc'[c].name)
                /\ ltable' = ltable
          /\ (LabelInsertedBy(c) /\ StoredNamed(lproc[c].name) = {}) =>
                \E k \in DOMAIN ltable' :
                    /\ ltable'[k] = lproc'[c].res.val
                    /\ ltable'[k].name = lproc[c].name
                    /\ \A j \in DOMAIN ltable' :
                          ltable'[j].name = lproc[c].name => j = k
      ]_vars

\* C13 witness: one caller created "x", another was then refused with
\* Duplicate carrying the first one's id, and one "x" is stored.
C13_Witness ==
    \E c \in LabelCallers, d \in LabelCallers :
        /\ lproc[c].pc = "done" /\ lproc[c].res = Ok(Label(1, "x"))
        /\ lproc[d].pc = "done" /\ lproc[d].res = Duplicate(1)
        /\ lproc[d].name = "x"
        /\ Cardinality(StoredNamed("x")) = 1

\* C14 (as claimed): no two stored labels share a name.
C14_UniqueLabelNames ==
    \A j \in DOMAIN ltable, k \in DOMAIN ltable :
        ltable[j].name = ltable[k].name => j = k

\* =================================================== claims (SpecHttp)

\* A step that serves a request to the endpoint of `op`.
Served(op) == http'.op = op /\ vars' # vars

\* The body of exchange h is a JSON object with the fields its endpoint
\* requires, and its text obeys the length rules.
BodyParses(h) == h.body.kind = "json" /\ (h.op = "create" => h.body.text # None)
BodyValid(h) ==
    h.body.text = None \/
    Len(h.body.text[1]) \in MinTextLen..MaxTextLen

AnsweredWith(h, status) == h.resp.kind = "Response" /\ h.resp.status = status

\* C15: on the create and update endpoints the repository is called, and
\* its state changes, only for a body that deserialized and then passed
\* validation; a body that does not deserialize is answered 400 without
\* validation being run, a body that fails validation is answered 400,
\* and in both cases the repository state is unchanged.
C15_ExtractorGates ==
    [][ (Served("create") \/ Served("update")) =>
            /\ (http'.called \/ memVars' # memVars) =>
                  BodyParses(http') /\ http'.validated /\ BodyValid(http')
            /\ ~BodyParses(http') =>
                  /\ AnsweredWith(http', BAD_REQUEST)
                  /\ ~http'.validated /\ ~http'.called
                  /\ memVars' = memVars
            /\ (BodyParses(http') /\ ~BodyValid(http')) =>
                  /\ AnsweredWith(http', BAD_REQUEST)
                  /\ http'.validated /\ ~http'.called
                  /\ memVars' = memVars
      ]_vars

\* C15 witness: a PATCH of a stored todo whose text is too long was
\* answered 400 after validation ran, and the todo kept its text.
C15_Witness ==
    /\ http.op = "update" /\ http.id \in DOMAIN store
    /\ BodyParses(http) /\ ~BodyValid(http)
    /\ AnsweredWith(http, BAD_REQUEST) /\ http.validated /\ ~http.called
    /\ store[http.id].text = "a"

\* C17 (as claimed): POST /todos with a valid body answers 201 with the
\* created todo; GET /todos/{id} answers 200 with the stored todo and
\* DELETE /todos/{id} answers 204 and removes it while it is stored; GET
\* and DELETE of an id that is not stored (as after that delete) answer 404.
C17_Lifecycle ==
    [][ /\ (Served("create") /\ BodyParses(http') /\ BodyValid(http')) =>
              /\ AnsweredWith(http', CREATED)
              /\ LET todo == http'.resp.body[1]
                 IN  /\ todo = TodoEntity_new(todo.id, http'.body.text[1])
                     /\ todo.id \in DOMAIN store' /\ store'[todo.id] = todo
        /\ (Served("find") /\ http'.id \in DOMAIN store) =>
              /\ AnsweredWith(http', OK)
              /\ http'.resp.body = Some(store[http'.id])
        /\ (Served("delete") /\ http'.id \in DOMAIN store) =>
              /\ AnsweredWith(http', NO_CONTENT)
              /\ http'.id \notin DOMAIN store'
        /\ ((Served("find") \/ Served("delete")) /\ http'.id \notin DOMAIN store) =>
              AnsweredWith(http', NOT_FOUND)
      ]_vars

\* ================================================ claims (SpecExtract)

\* The text (or name) the body just extracted carries, as an Option.
ExtractedText ==
    IF http.op = "CreateLabel" THEN http.body.name ELSE http.body.text

\* C16: a CreateTodo or CreateLabel body that deserializes is accepted
\* exactly when its text / name has 1 to 100 characters and is rejected
\* with 400 otherwise; an UpdateTodo body that deserializes is accepted
\* when it has no text and otherwise exactly when the text has 1 to 100
\* characters, and rejected with 400 otherwise.
C16_ValidationBoundary ==
    (http.op \in {"CreateTodo", "CreateLabel", "UpdateTodo"}
        /\ http.body.kind = "json"
        /\ (http.op # "UpdateTodo" => ExtractedText # None)) =>
            LET inRange == ExtractedText = None \/
                           (Len(ExtractedText[1]) >= 1 /\ Len(ExtractedText[1]) <= 100)
            IN  /\ inRange <=> http.resp.kind = "Accepted"
                /\ ~inRange => AnsweredWith(http, BAD_REQUEST)

\* C16 witness: a CreateTodo text of exactly 100 characters was accepted.
C16_Witness ==
    /\ http.op = "CreateTodo"
    /\ http.body.kind = "json" /\ http.body.text # None
    /\ Len(http.body.text[1]) = 100
    /\ http.resp.kind = "Accepted"
    /\ http.resp.payload.text = http.body.text[1]

\* ============================================ claims (SpecDb, handlers)

\* C18 (as claimed): whatever todo endpoint served the request, the
\* handler answers a NotFound error of the repository with 404 and an
\* Unexpected error with 500, and it always answers.
C18_StatusPerErrorKind ==
    \A p \in Procs :
        proc[p].pc = "done" =>
            /\ proc[p].resp.kind = "Response"
            /\ proc[p].res.kind = "Err" =>
                  /\ proc[p].res.err = "NotFound" => proc[p].resp.status = 404
                  /\ proc[p].res.err = "Unexpected" => proc[p].resp.status = 500

\* =================================================== claims (SpecFold)

\* The position of the first row of todo id in rs.
FirstRowOf(rs, id) ==
    CHOOSE i \in DOMAIN rs : rs[i].id = id /\ \A j \in 1..(i - 1) : rs[j].id # id

AskedLabels(c) == IF c.payload = None THEN None ELSE c.payload[1].labels

\* C20 (as claimed): an update of a stored todo whose payload lists only
\* ids of labels the repository holds succeeds, and the todo stored
\* afterwards has exactly the labels with those ids, in the requested
\* order and as often as requested.
C20_LabelResolution ==
    [][ (/\ CallStep("update")
         /\ last'.id \in DOMAIN store
         /\ AskedLabels(last') # None
         /\ AllStoredLabels(AskedLabels(last')[1])) =>
            /\ last'.res.kind = "Ok"
            /\ last'.id \in DOMAIN store'
            /\ store'[last'.id].labels = RequestedLabels(AskedLabels(last')[1])
      ]_vars

\* The update just called asked for a label the repository does not hold.
AsksMissingLabel(c) ==
    AskedLabels(c) # None /\ ~AllStoredLabels(AskedLabels(c)[1])

\* C21 (as claimed): an update that names a label the repository does not
\* hold leaves the stored todo unchanged, and no operation called on the
\* store, then or later, fails because the lock is unusable.
C21_MissingLabelContained ==
    [][ /\ (CallStep("update") /\ AsksMissingLabel(last')) => store' = store
        /\ vars' # vars => last'.res # Panic("PoisonError")
      ]_vars

\* ====================================== claims (SpecLabels, continued)

\* Caller c has just returned from a call of `op`.
LabelReturned(c, op) ==
    lproc[c].pc # "done" /\ lproc'[c].pc = "done" /\ lproc'[c].op = op

\* C23 (as claimed): delete removes the label when it is stored and
\* reports NotFound when it is not, all returns every stored label, and
\* neither aborts.
C23_LabelDeleteAndAll ==
    [][ \A c \in LabelCallers :
          /\ LabelReturned(c, "delete") =>
                IF lproc'[c].id \in DOMAIN ltable
                THEN /\ lproc'[c].res = Ok(<<>>)
                     /\ lproc'[c].id \notin DOMAIN ltable'
                ELSE lproc'[c].res = NotFound(lproc'[c].id)
          /\ LabelReturned(c, "all") =>
                /\ lproc'[c].res.kind = "Ok"
                /\ { lproc'[c].res.val[i] : i \in DOMAIN lproc'[c].res.val }
                      = { ltable[k] : k \in DOMAIN ltable }
      ]_vars

\* ============================================ claims (Spec, continued)

\* C26: a create that returns on a store holding n todos returns id n + 1;
\* on a store holding exactly the ids 1..n (as after n creates and no
\* delete) the ids stored afterwards are 1..n+1, so the k-th create
\* returns k; on the empty store it returns 1.
C26_IdIsSizePlusOne ==
    [][ (CallStep("create") /\ last'.res.kind = "Ok") =>
            LET n == Cardinality(DOMAIN store)
            IN  /\ last'.res.val.id = n + 1
                /\ DOMAIN store = 1..n => DOMAIN store' = 1..(n + 1)
                /\ store = << >> => last'.res.val.id = 1
      ]_vars

\* C26 witness: the create that filled the store with the ids 1..MaxTodos
\* returned id MaxTodos.
C26_Witness ==
    /\ CreateReturned
    /\ last.res.val.id = MaxTodos
    /\ DOMAIN store = 1..MaxTodos

\* An update (a delete) that returned Ok in the step just taken.
UpdateReturns == CallStep("update") /\ last'.res.kind = "Ok"
DeleteReturns == CallStep("delete") /\ last'.res.kind = "Ok"

\* The ids of a todo's labels, in order.
LabelIdsOf(todo) == [i \in DOMAIN todo.labels |-> todo.labels[i].id]

\* Every present field of the payload equals the todo's value.
AgreesWith(todo, payload) ==
    /\ payload.text # None => payload.text[1] = todo.text
    /\ payload.completed # None => payload.completed[1] = todo.completed
    /\ payload.labels # None => payload.labels[1] = LabelIdsOf(todo)

\* C28: an update that returns leaves the stored todo equal to the payload
\* in every present field, so applying the same payload again is an update
\* with equal values; and an update whose present fields equal the stored
\* values returns the stored todo and leaves the store unchanged.  Hence
\* applying a payload twice leaves the state of applying it once.
C28_UpdateIdempotent ==
    [][ UpdateReturns =>
            LET k == last'.id
                payload == last'.payload[1]
            IN  /\ AgreesWith(store'[k], payload)
                /\ AgreesWith(store[k], payload) =>
                      /\ last'.res.val = store[k]
                      /\ store' = store
      ]_vars

\* C28 witness: an update carrying all three fields returned, and the todo
\* it stored under a completed flag of TRUE carries the payload's values.
C28_Witness ==
    /\ last.op = "update" /\ last.res.kind = "Ok"
    /\ last.payload[1].text # None
    /\ last.payload[1].completed = Some(TRUE)
    /\ last.payload[1].labels = Some(<<1>>)
    /\ store[last.id] = last.res.val
    /\ AgreesWith(store[last.id], last.payload[1])

\* C29: update(k, payload) and delete(k) leave every todo stored under
\* another id unchanged and add no id; update never changes the set of
\* stored ids; a delete that returns Ok removes exactly the key k.
C29_FrameOfUpdateAndDelete ==
    [][ /\ (CallStep("update") \/ CallStep("delete")) =>
              /\ DOMAIN store' \subseteq DOMAIN store
              /\ \A j \in DOMAIN store \ {last'.id} :
                    j \in DOMAIN store' /\ store'[j] = store[j]
        /\ CallStep("update") => DOMAIN store' = DOMAIN store
        /\ DeleteReturns =>
              /\ last'.id \in DOMAIN store
              /\ DOMAIN store' = DOMAIN store \ {last'.id}
      ]_vars

\* C29 witness: a delete returned Ok and another todo is still stored.
C29_Witness ==
    /\ last.op = "delete" /\ last.res.kind = "Ok"
    /\ store # << >>

\* C30: in every reachable state each stored todo's id is the key it is
\* stored under, and an update on id k that returns, returns and stores a
\* todo whose id is k.
C30_IdEqualsKey ==
    /\ [](\A k \in DOMAIN store : store[k].id = k)
    /\ [][ UpdateReturns =>
              /\ last'.res.val.id = last'.id
              /\ store'[last'.id].id = last'.id
         ]_vars

\* C30 witness: an update on id 2 returned and the todo under 2 has id 2.
C30_Witness ==
    /\ last.op = "update" /\ last.res.kind = "Ok" /\ last.id = 2
    /\ 2 \in DOMAIN store /\ store[2].id = 2

\* ------------------------------------- the application on either repository

\* create_app is built with one TodoRepository: the in-memory one (as the
\* tests of main.rs do), which has no database callers, or the relational
\* one (as main does).
InMemoryBuild == proc = << >>

App_create(payload) == InMemoryBuild /\ Memory_create(payload)
App_find(id) == InMemoryBuild /\ Memory_find(id)
App_all == InMemoryBuild /\ Memory_all
App_update(id, payload) == InMemoryBuild /\ Memory_update(id, payload)
App_delete(id) == InMemoryBuild /\ Memory_delete(id)

\* The ids of a todos table that held at most MaxListed rows.
ListedIds == 1..MaxListed

\* The relational build: a table earlier calls left with at most MaxListed
\* rows, and the callers about to list it or delete from it.
InitListed ==
    /\ store = << >>
    /\ labels = OneLabel
    /\ poisoned = FALSE
    /\ last = NoCall
    /\ issued = {}
    /\ NoTasks
    /\ serial \in 1..(MaxListed + 1)
    /\ \E t \in DbTables(serial - 1) :
          rows = [k \in DOMAIN t |-> Row(k, t[k][1], t[k][2])]
    /\ proc = [p \in Procs |-> IdleProc]
    /\ NoLabelDb
    /\ NoHttp
    /\ NoFold

InitEither == Init \/ InitListed

NextEither ==
    \/ \E p \in CreateTodo : App_create(p)
    \/ \E id \in Ids : App_find(id)
    \/ App_all
    \/ \E id \in Ids, p \in UpdateTodo : App_update(id, p)
    \/ \E id \in Ids : App_delete(id)
    \/ \E p \in DOMAIN proc : Db_all(p)
    \/ \E p \in DOMAIN proc, id \in ListedIds : Db_delete(p, id)

\* The application calling the one repository it was built with.
SpecEither == InitEither /\ [][NextEither]_vars

\* ================================================== claims (SpecEither)

\* C27: an in-memory all() that returns, returns every stored todo exactly
\* once and nothing else (on a store with one todo, the one-element list
\* of that todo); a relational all() that returns, returns its todos by
\* strictly descending id.
C27_AllListsEveryTodo ==
    [][ /\ (CallStep("all") /\ last'.res.kind = "Ok") =>
              LET r == last'.res.val
              IN  /\ { r[i] : i \in DOMAIN r } = { store[k] : k \in DOMAIN store }
                  /\ \A i, j \in DOMAIN r : i # j => r[i] # r[j]
                  /\ \A k \in DOMAIN store :
                        DOMAIN store = {k} => r = << store[k] >>
        /\ \A p \in DOMAIN proc :
              (DbReturned(p, "all") /\ proc'[p].res.kind = "Ok") =>
                  LET r == proc'[p].res.val
                  IN  /\ \A i \in 1..(Len(r) - 1) : r[i].id > r[i + 1].id
                      /\ { r[i].id : i \in DOMAIN r } = DOMAIN rows
      ]_vars

\* C27 witness: a relational all() returned a list of two or more todos.
C27_Witness ==
    \E p \in DOMAIN proc :
        /\ proc[p].pc = "done" /\ proc[p].op = "all"
        /\ proc[p].res.kind = "Ok"
        /\ Len(proc[p].res.val) >= 2

\* ============================================ claims (SpecTasks, fair)

\* What each task holds where: a read guard exactly while a find or an all
\* is reading, the write guard exactly from a create's, update's or
\* delete's lock to its return, and never a write guard beside another.
LockDiscipline ==
    /\ lock.writer \in Workers \cup {0}
    /\ lock.writer # 0 => lock.readers = {}
    /\ \A t \in Workers :
          /\ t \in lock.readers <=>
                (task[t].op \in {"find", "all"} /\ task[t].pc = "reading")
          /\ lock.writer = t <=>
                (/\ task[t].op \in {"create", "update", "delete"}
                 /\ task[t].pc \notin {"start", "done"})

AllReturned == \A t \in Workers : task[t].pc = "done"

\* C22: every operation holds exactly one guard of the lock while it runs
\* (shared for find and all, exclusive for create, update and delete) and
\* none once it is over, and under fair scheduling every interleaving of
\* concurrent operations leads to all of them being over.
C22_DeadlockFree == []LockDiscipline /\ <>AllReturned

\* C22 witness: all tasks are over, a read among them and an update that
\* returned a todo, and the lock is free.
C22_Witness ==
    /\ AllReturned
    /\ lock = [writer |-> 0, readers |-> {}]
    /\ \E t \in Workers, u \in Workers :
          /\ task[t].op \in {"find", "all"} /\ task[t].res.kind = "Ok"
          /\ task[u].op = "update" /\ task[u].res.kind = "Ok"

\* ================================================== claims (SpecTasks)

\* Task t's find or all reads the store and returns in this step.
ReaderReturns(t) == task[t].pc = "reading" /\ task'[t].pc = "done"

\* C24: when a find or an all returns, no concurrent update has written a
\* part of its todo only, and the reader returns the stored todos as they
\* are: each update is seen entirely or not at all.
C24_NoPartialMutation ==
    [][ \A t \in Workers :
          ReaderReturns(t) =>
              /\ \A u \in Workers : task[u].pc # "rest"
              /\ task[t].op = "find" =>
                    task'[t].res = IF task[t].id \in DOMAIN store
                                   THEN Ok(store[task[t].id])
                                   ELSE NotFound(task[t].id)
              /\ task[t].op = "all" =>
                    { task'[t].res.val[i] : i \in DOMAIN task'[t].res.val }
                        = { store[k] : k \in DOMAIN store }
      ]_vars

\* C24 witness: a find returned the very todo a concurrent update of both
\* text and completed returned.
C24_Witness ==
    \E t \in Workers, u \in Workers :
        /\ task[t].op = "find" /\ task[t].pc = "done" /\ task[t].res.kind = "Ok"
        /\ task[u].op = "update" /\ task[u].pc = "done" /\ task[u].res.kind = "Ok"
        /\ task[u].payload.text # None /\ task[u].payload.completed # None
        /\ task[t].res.val = task[u].res.val

\* Task t's update carried the text alone (completed alone) and returned Ok.
TextOnlyReturned(t) ==
    /\ task[t].op = "update" /\ task[t].pc = "done" /\ task[t].res.kind = "Ok"
    /\ task[t].payload.text # None
    /\ task[t].payload.completed = None /\ task[t].payload.labels = None

CompletedOnlyReturned(t) ==
    /\ task[t].op = "update" /\ task[t].pc = "done" /\ task[t].res.kind = "Ok"
    /\ task[t].payload.completed # None
    /\ task[t].payload.text = None /\ task[t].payload.labels = None

\* C25: once two concurrent updates of one stored id have returned, one
\* carrying the text alone and one completed alone, beside tasks that only
\* read, the stored todo carries both new values.
C25_NoLostUpdate ==
    \A t \in Workers, u \in Workers :
        (/\ TextOnlyReturned(t) /\ CompletedOnlyReturned(u)
         /\ task[t].id = task[u].id
         /\ \A w \in Workers \ {t, u} : task[w].op \in {"find", "all"}) =>
            /\ task[t].id \in DOMAIN store
            /\ store[task[t].id].text = task[t].payload.text[1]
            /\ store[task[t].id].completed = task[u].payload.completed[1]

\* C25 witness: both updates returned and the todo carries both values.
C25_Witness ==
    \E t \in Workers, u \in Workers :
        /\ TextOnlyReturned(t) /\ CompletedOnlyReturned(u)
        /\ store[1].text = "b" /\ store[1].completed = TRUE

====
